---------------------------- MODULE Spec2Model ----------------------------
(***************************************************************************)
(* A model of the Sudoku solver of functional_sudoku.py: the grid helpers  *)
(* (get_row, get_col, get_square), the guarded write set_cell, and the     *)
(* two searches brute_solve and smarter_solve.                             *)
(*                                                                         *)
(* A grid is the Python list of nine lists of nine ints; it is modelled as *)
(* a function [0..8 -> [0..8 -> Int]] so that grid[i][j] reads as in the   *)
(* source.  The other Python lists (rows, columns, squares, the lists of   *)
(* possibilities, empty_indices) are TLA+ sequences: the Python element    *)
(* l[k] is the sequence element l[k + 1].                                  *)
(***************************************************************************)
EXTENDS Integers, Sequences, FiniteSets, TLC

VARIABLES
    heap,                \* the grid objects: "g" is the caller's grid, "s" a copy
    solution,            \* the object the local name `solution` is bound to
    empty_indices,       \* smarter_solve: cell indices blank in the input
    N,                   \* smarter_solve: len(empty_indices)
    all_possibilities,   \* smarter_solve: the master candidate lists
    loop_possibilities,  \* smarter_solve: the live candidate lists
    ix,                  \* smarter_solve: the cursor
    pc,                  \* the position in the running function
    printed,             \* the message of lines 283-286, "" before it
    result,              \* <<>> before the return, <<returned value>> after
    x,                   \* brute_solve: the cell looked at
    first_blank,         \* brute_solve: the lower end of the loop condition
    call,                \* the last direct call of set_cell / clear, with its outcome
    calls,               \* the number of direct calls made so far
    input,               \* the grid as the caller passed it (never written)
    tried                \* smarter_solve: the values passed to set_cell in the
                         \* last iteration of the outer loop, in order

vars == <<heap, solution, empty_indices, N, all_possibilities,
          loop_possibilities, ix, x, first_blank, pc, printed, result, call,
          calls, input, tried>>

solverVars == <<solution, empty_indices, N, all_possibilities,
                loop_possibilities, ix, x, first_blank, printed, result,
                tried>>

smarterVars == <<empty_indices, N, all_possibilities, loop_possibilities, ix,
                 printed, tried>>

-----------------------------------------------------------------------------
(* Program constants.                                                      *)

\* range(9): the number of rows, of columns, and of cells of a square.
Side == 9

\* range(81): the number of cells.
NCells == 81

\* j // 3, i // 3: the side of a square.
Box == 3

\* 1 <= value <= 9, range(1, 10): the largest cell value.
MaxValue == 9

Idx == 0 .. (Side - 1)

Values == 0 .. MaxValue

Boards == [Idx -> [Idx -> Values]]

-----------------------------------------------------------------------------
(* Grid helpers.                                                           *)

\* `value in lst` for a Python list.
In(value, lst) == \E k \in 1 .. Len(lst) : lst[k] = value

\* grid[i][:]
get_row(i, grid) == [k \in 1 .. Side |-> grid[i][k - 1]]

\* [grid[i][j] for i in range(9)]
get_col(j, grid) == [k \in 1 .. Side |-> grid[k - 1][j]]

\* get_square with the two square indices exchanged (sqx from i, sqy from j).
get_square_swapped(i, j, grid) ==
    LET sqx == i \div Box
        sqy == j \div Box
        x1 == sqx * Box
        y1 == sqy * Box
    IN  [k \in 1 .. (Box * Box) |->
            grid[y1 + ((k - 1) \div Box)][x1 + ((k - 1) % Box)]]

\* [grid[y][x] for y in range(y1, y1 + 3) for x in range(x1, x1 + 3)]
get_square(i, j, grid) ==
    LET sqx == j \div Box
        sqy == i \div Box
        x1 == sqx * Box
        y1 == sqy * Box
    IN  [k \in 1 .. (Box * Box) |->
            grid[y1 + ((k - 1) \div Box)][x1 + ((k - 1) % Box)]]

\* set_cell writing grid[j][i] where the source writes grid[i][j].
set_cell_transposed_write(i, j, grid, value) ==
    IF 1 <= value /\ value <= MaxValue
    THEN LET row == get_row(i, grid)
             col == get_col(j, grid)
             square == get_square(i, j, grid)
         IN  IF In(value, row) THEN [ok |-> FALSE, grid |-> grid]
             ELSE IF In(value, col) THEN [ok |-> FALSE, grid |-> grid]
             ELSE IF In(value, square) THEN [ok |-> FALSE, grid |-> grid]
             ELSE [ok |-> TRUE, grid |-> [grid EXCEPT ![j][i] = value]]
    ELSE [ok |-> FALSE, grid |-> grid]

\* set_cell without the `elif value in col` branch.
set_cell_no_col(i, j, grid, value) ==
    IF 1 <= value /\ value <= MaxValue
    THEN LET row == get_row(i, grid)
             square == get_square(i, j, grid)
         IN  IF In(value, row) THEN [ok |-> FALSE, grid |-> grid]
             ELSE IF In(value, square) THEN [ok |-> FALSE, grid |-> grid]
             ELSE [ok |-> TRUE, grid |-> [grid EXCEPT ![i][j] = value]]
    ELSE [ok |-> FALSE, grid |-> grid]

\* set_cell returns a bool and may write grid[i][j]: the pair of both.
set_cell(i, j, grid, value) ==
    IF 1 <= value /\ value <= MaxValue
    THEN LET row == get_row(i, grid)
             col == get_col(j, grid)
             square == get_square(i, j, grid)
         IN  IF In(value, row) THEN [ok |-> FALSE, grid |-> grid]
             ELSE IF In(value, col) THEN [ok |-> FALSE, grid |-> grid]
             ELSE IF In(value, square) THEN [ok |-> FALSE, grid |-> grid]
             ELSE [ok |-> TRUE, grid |-> [grid EXCEPT ![i][j] = value]]
    ELSE [ok |-> FALSE, grid |-> grid]

\* The else branch without its `solution[i][j] = 0`.
clear_cell_keep(i, j, grid) == grid

\* solution[i][j] = 0
clear_cell(i, j, grid) == [grid EXCEPT ![i][j] = 0]

\* `solution = grid` in place of the deep copy: no new object.
deepcopy_alias(h, r) == [heap |-> h, ref |-> r]

\* copy.deepcopy(grid): a new object "s" with the cells of object r.
deepcopy(h, r) ==
    [heap |-> [o \in (DOMAIN h) \cup {"s"} |-> IF o = "s" THEN h[r] ELSE h[o]],
     ref  |-> "s"]


-----------------------------------------------------------------------------
(* The grids handed to the solver.                                         *)

\* The number of window cells of a base grid that take every value 0..9.
NWin == 2

\* The Python cells x of the window, x = 9 * i + j.
WindowCells == <<14, 48, 57>>

FromRows(rows) == [i \in Idx |-> [j \in Idx |-> rows[i + 1][j + 1]]]

\* create_grid(): [[0] * 9 for i in range(9)]
create_grid == [i \in Idx |-> [j \in Idx |-> 0]]

\* A complete consistent grid.
SolvedGrid ==
    FromRows(<< <<5, 3, 4, 6, 7, 8, 9, 1, 2>>,
                <<6, 7, 2, 1, 9, 5, 3, 4, 8>>,
                <<1, 9, 8, 3, 4, 2, 5, 6, 7>>,
                <<8, 5, 9, 7, 6, 1, 4, 2, 3>>,
                <<4, 2, 6, 8, 5, 3, 7, 9, 1>>,
                <<7, 1, 3, 9, 2, 4, 8, 5, 6>>,
                <<9, 6, 1, 5, 3, 7, 2, 8, 4>>,
                <<2, 8, 7, 4, 1, 9, 6, 3, 5>>,
                <<3, 4, 5, 2, 8, 6, 1, 7, 9>> >>)

\* SolvedGrid with 28 cells blanked.
SparseGrid ==
    FromRows(<< <<0, 3, 4, 6, 7, 8, 9, 1, 2>>,
                <<0, 7, 2, 0, 0, 5, 0, 0, 0>>,
                <<1, 0, 8, 3, 4, 2, 5, 0, 0>>,
                <<8, 5, 9, 7, 6, 1, 4, 0, 0>>,
                <<0, 2, 0, 0, 5, 3, 7, 0, 1>>,
                <<0, 1, 3, 9, 2, 0, 8, 0, 0>>,
                <<0, 6, 1, 5, 3, 7, 0, 0, 4>>,
                <<0, 8, 7, 0, 1, 0, 6, 3, 5>>,
                <<3, 4, 5, 0, 0, 6, 1, 7, 9>> >>)

\* The puzzle of which SolvedGrid is the solution.
ClassicGrid ==
    FromRows(<< <<5, 3, 0, 0, 7, 0, 0, 0, 0>>,
                <<6, 0, 0, 1, 9, 5, 0, 0, 0>>,
                <<0, 9, 8, 0, 0, 0, 0, 6, 0>>,
                <<8, 0, 0, 0, 6, 0, 0, 0, 3>>,
                <<4, 0, 0, 8, 0, 3, 0, 0, 1>>,
                <<7, 0, 0, 0, 2, 0, 0, 0, 6>>,
                <<0, 6, 0, 0, 0, 0, 2, 8, 0>>,
                <<0, 0, 0, 4, 1, 9, 0, 0, 5>>,
                <<0, 0, 0, 0, 8, 0, 0, 7, 9>> >>)

\* The grid of test_guardian_20161112.
GuardianGrid ==
    FromRows(<< <<0, 2, 0, 0, 0, 0, 0, 7, 0>>,
                <<0, 0, 8, 0, 7, 0, 5, 0, 0>>,
                <<3, 0, 0, 9, 0, 4, 0, 0, 8>>,
                <<6, 0, 0, 5, 0, 8, 0, 0, 3>>,
                <<0, 0, 1, 7, 0, 3, 9, 0, 0>>,
                <<0, 0, 0, 0, 0, 0, 0, 0, 0>>,
                <<0, 4, 3, 6, 2, 9, 7, 8, 0>>,
                <<0, 0, 0, 0, 0, 0, 0, 0, 0>>,
                <<0, 8, 0, 0, 1, 0, 0, 4, 0>> >>)

\* base with its first NWin window cells set to f[1], ..., f[NWin].
Override(base, f) ==
    [i \in Idx |-> [j \in Idx |->
        IF \E n \in 1 .. NWin : WindowCells[n] = Side * i + j
        THEN f[CHOOSE n \in 1 .. NWin : WindowCells[n] = Side * i + j]
        ELSE base[i][j]]]

Perturbed(base) == { Override(base, f) : f \in [1 .. NWin -> Values] }

InputBoards ==
    Perturbed(SolvedGrid) \cup Perturbed(SparseGrid)
        \cup {create_grid, ClassicGrid, GuardianGrid}

-----------------------------------------------------------------------------
(* smarter_solve.                                                          *)

\* The blank cells read as grid[x % 9][x // 9].
EmptyIndices_transposed(grid) ==
    LET Keep(n) == grid[n % Side][n \div Side] = 0
    IN  SelectSeq([k \in 1 .. NCells |-> k - 1], Keep)

\* [x for x in range(81) if grid[x // 9][x % 9] == 0]
EmptyIndices(grid) ==
    LET Keep(n) == grid[n \div Side][n % Side] = 0
    IN  SelectSeq([k \in 1 .. NCells |-> k - 1], Keep)

\* list(range(1, 10))
FullList == [k \in 1 .. MaxValue |-> k]

\* The inner loop, lines 267-275, on the list poss of the current cell:
\* pop values from the end of the list until set_cell accepts one (the break)
\* or the list is empty (the else branch is taken).  A recursive function:
\* each round works on the values the round before left.  The field tried
\* lists the values passed to set_cell, in the order of the calls.
InnerLoopOn[grid \in [Idx -> [Idx -> Int]], poss \in Seq(Int), i \in Idx, j \in Idx] ==
    IF Len(poss) > 0
    THEN LET value == poss[Len(poss)]
             rest == SubSeq(poss, 1, Len(poss) - 1)
             r == set_cell(i, j, grid, value)
         IN  IF r.ok
             THEN [ok |-> TRUE, grid |-> r.grid, poss |-> rest,
                   tried |-> <<value>>]
             ELSE [InnerLoopOn[r.grid, rest, i, j] EXCEPT !.tried = <<value>> \o @]
    ELSE [ok |-> FALSE, grid |-> grid, poss |-> poss, tried |-> <<>>]

\* The inner loop with pop(0) where the source has pop(): the values are
\* taken from the front of the list.
InnerLoopOn_pop0[grid \in [Idx -> [Idx -> Int]], poss \in Seq(Int), i \in Idx, j \in Idx] ==
    IF Len(poss) > 0
    THEN LET value == poss[1]
             rest == SubSeq(poss, 2, Len(poss))
             r == set_cell(i, j, grid, value)
         IN  IF r.ok
             THEN [ok |-> TRUE, grid |-> r.grid, poss |-> rest,
                   tried |-> <<value>>]
             ELSE [InnerLoopOn_pop0[r.grid, rest, i, j] EXCEPT !.tried = <<value>> \o @]
    ELSE [ok |-> FALSE, grid |-> grid, poss |-> poss, tried |-> <<>>]

InnerLoop_pop0(i, j, grid, poss) == InnerLoopOn_pop0[grid, poss, i, j]

InnerLoop(i, j, grid, poss) == InnerLoopOn[grid, poss, i, j]

NoCall == [op |-> "none", i |-> 0, j |-> 0, value |-> 0, ret |-> FALSE]

\* The caller holds a grid and calls smarter_solve(grid).
Init ==
    /\ input \in InputBoards
    /\ heap = [o \in {"g"} |-> input]
    /\ solution = "g"
    /\ empty_indices = <<>>
    /\ N = 0
    /\ all_possibilities = <<>>
    /\ loop_possibilities = <<>>
    /\ ix = 0
    /\ x = 0
    /\ first_blank = 0
    /\ pc = "start"
    /\ printed = ""
    /\ result = <<>>
    /\ call = NoCall
    /\ calls = 0
    /\ tried = <<>>

\* Lines 234-251: the copy, the blank cells, the two lists of lists, ix = 0.
Setup ==
    /\ pc = "start"
    /\ LET c == deepcopy(heap, "g")
           e == EmptyIndices(c.heap["g"])
       IN  /\ heap' = c.heap
           /\ solution' = c.ref
           /\ empty_indices' = e
           /\ N' = Len(e)
           /\ all_possibilities' = [k \in 1 .. Len(e) |-> FullList]
           /\ loop_possibilities' = [k \in 1 .. Len(e) |-> FullList]
    /\ ix' = 0
    /\ pc' = "loop"
    /\ UNCHANGED <<x, first_blank, printed, result, call, calls, input, tried>>

\* One iteration of `while 0 <= ix < N` that leaves the inner loop by break.
Advance ==
    /\ pc = "loop"
    /\ 0 <= ix /\ ix < N
    /\ LET cx == empty_indices[ix + 1]
           i == cx \div Side
           j == cx % Side
           r == InnerLoop(i, j, heap[solution], loop_possibilities[ix + 1])
       IN  /\ r.ok
           /\ heap' = [heap EXCEPT ![solution] = r.grid]
           /\ loop_possibilities' = [loop_possibilities EXCEPT ![ix + 1] = r.poss]
           /\ ix' = ix + 1
           /\ tried' = r.tried
    /\ UNCHANGED <<solution, empty_indices, N, all_possibilities, x, first_blank,
                   pc, printed, result, call, calls, input>>

\* The else branch without its `ix -= 1`.
Backtrack_stay ==
    /\ pc = "loop"
    /\ 0 <= ix /\ ix < N
    /\ LET cx == empty_indices[ix + 1]
           i == cx \div Side
           j == cx % Side
           r == InnerLoop(i, j, heap[solution], loop_possibilities[ix + 1])
       IN  /\ ~r.ok
           /\ heap' = [heap EXCEPT ![solution] = clear_cell(i, j, r.grid)]
           /\ loop_possibilities' =
                  [loop_possibilities EXCEPT ![ix + 1] = all_possibilities[ix + 1]]
           /\ ix' = ix
           /\ tried' = r.tried
    /\ UNCHANGED <<solution, empty_indices, N, all_possibilities, x, first_blank,
                   pc, printed, result, call, calls, input>>

\* The else branch without line 279, the reset of the live list.
Backtrack_noreset ==
    /\ pc = "loop"
    /\ 0 <= ix /\ ix < N
    /\ LET cx == empty_indices[ix + 1]
           i == cx \div Side
           j == cx % Side
           r == InnerLoop(i, j, heap[solution], loop_possibilities[ix + 1])
       IN  /\ ~r.ok
           /\ heap' = [heap EXCEPT ![solution] = clear_cell(i, j, r.grid)]
           /\ loop_possibilities' = [loop_possibilities EXCEPT ![ix + 1] = r.poss]
           /\ ix' = ix - 1
           /\ tried' = r.tried
    /\ UNCHANGED <<solution, empty_indices, N, all_possibilities, x, first_blank,
                   pc, printed, result, call, calls, input>>

\* One iteration that exhausts the list: the else branch, lines 276-281.
Backtrack ==
    /\ pc = "loop"
    /\ 0 <= ix /\ ix < N
    /\ LET cx == empty_indices[ix + 1]
           i == cx \div Side
           j == cx % Side
           r == InnerLoop(i, j, heap[solution], loop_possibilities[ix + 1])
       IN  /\ ~r.ok
           /\ heap' = [heap EXCEPT ![solution] = clear_cell(i, j, r.grid)]
           /\ loop_possibilities' =
                  [loop_possibilities EXCEPT ![ix + 1] = all_possibilities[ix + 1]]
           /\ ix' = ix - 1
           /\ tried' = r.tried
    /\ UNCHANGED <<solution, empty_indices, N, all_possibilities, x, first_blank,
                   pc, printed, result, call, calls, input>>

\* Lines 283-286 with `ix <= 0` where the source tests `ix < 0`.
Return_le ==
    /\ pc = "loop"
    /\ ~(0 <= ix /\ ix < N)
    /\ printed' = IF ix <= 0 THEN "No solution found!" ELSE "Solution found!"
    /\ result' = <<heap[solution]>>
    /\ pc' = "done"
    /\ UNCHANGED <<heap, solution, empty_indices, N, all_possibilities,
                   loop_possibilities, ix, x, first_blank, call, calls, input,
                   tried>>

\* Lines 283-289: the loop has ended; print the outcome, return solution.
Return ==
    /\ pc = "loop"
    /\ ~(0 <= ix /\ ix < N)
    /\ printed' = IF ix < 0 THEN "No solution found!" ELSE "Solution found!"
    /\ result' = <<heap[solution]>>
    /\ pc' = "done"
    /\ UNCHANGED <<heap, solution, empty_indices, N, all_possibilities,
                   loop_possibilities, ix, x, first_blank, call, calls, input,
                   tried>>

Next == Setup \/ Advance \/ Backtrack \/ Return

Spec == Init /\ [][Next]_vars

\* The function runs to its return: no step of it waits on anything.
FairSpec == Spec /\ WF_vars(Next)

-----------------------------------------------------------------------------
(* brute_solve.                                                            *)

\* Lines 200-209: `for value in range(start, 10)` until set_cell accepts a
\* value (the break) or the range is used up (the else branch is taken).
ForLoopOn[grid \in [Idx -> [Idx -> Int]], value \in Int, i \in Idx, j \in Idx] ==
    IF value < MaxValue + 1
    THEN LET r == set_cell(i, j, grid, value)
         IN  IF r.ok
             THEN [ok |-> TRUE, grid |-> r.grid]
             ELSE ForLoopOn[r.grid, value + 1, i, j]
    ELSE [ok |-> FALSE, grid |-> grid]

ForLoop(i, j, grid, start) == ForLoopOn[grid, start, i, j]

\* The caller holds a grid and calls brute_solve(grid).
BruteInit ==
    /\ input \in InputBoards
    /\ heap = [o \in {"g"} |-> input]
    /\ solution = "g"
    /\ empty_indices = <<>>
    /\ N = 0
    /\ all_possibilities = <<>>
    /\ loop_possibilities = <<>>
    /\ ix = 0
    /\ x = 0
    /\ first_blank = 0
    /\ pc = "brute_start"
    /\ printed = ""
    /\ result = <<>>
    /\ call = NoCall
    /\ calls = 0
    /\ tried = <<>>

\* Lines 181-189: the copy, first_blank = 0, x = 0.
BruteSetup ==
    /\ pc = "brute_start"
    /\ LET c == deepcopy(heap, "g")
       IN  /\ heap' = c.heap
           /\ solution' = c.ref
    /\ first_blank' = 0
    /\ x' = 0
    /\ pc' = "brute_loop"
    /\ UNCHANGED <<smarterVars, result, call, calls, input>>

\* One iteration of `while first_blank <= x < 81` on a cell that is blank
\* in grid, the for loop left by break.
BruteFill ==
    /\ pc = "brute_loop"
    /\ first_blank <= x /\ x < NCells
    /\ LET i == x \div Side
           j == x % Side
       IN  /\ heap["g"][i][j] = 0
           /\ \E r \in {ForLoop(i, j, heap[solution], heap[solution][i][j] + 1)} :
                 /\ r.ok
                 /\ heap' = [heap EXCEPT ![solution] = r.grid]
    /\ x' = x + 1
    /\ UNCHANGED <<smarterVars, solution, first_blank, pc, result, call, calls,
                   input>>

\* One iteration on a cell that is blank in grid, the for loop used up: the
\* else branch, lines 210-214.
BruteRevert ==
    /\ pc = "brute_loop"
    /\ first_blank <= x /\ x < NCells
    /\ LET i == x \div Side
           j == x % Side
       IN  /\ heap["g"][i][j] = 0
           /\ \E r \in {ForLoop(i, j, heap[solution], heap[solution][i][j] + 1)} :
                 /\ ~r.ok
                 /\ heap' = [heap EXCEPT ![solution] = clear_cell(i, j, r.grid)]
    /\ x' = x - 1
    /\ UNCHANGED <<smarterVars, solution, first_blank, pc, result, call, calls,
                   input>>

\* One iteration on a cell that is not blank in grid, lines 216-219.
BruteSkip ==
    /\ pc = "brute_loop"
    /\ first_blank <= x /\ x < NCells
    /\ heap["g"][x \div Side][x % Side] # 0
    /\ first_blank' = IF x = first_blank THEN first_blank + 1 ELSE first_blank
    /\ x' = x + 1
    /\ UNCHANGED <<smarterVars, heap, solution, pc, result, call, calls, input>>

\* Line 221: the loop has ended; return solution.
BruteReturn ==
    /\ pc = "brute_loop"
    /\ ~(first_blank <= x /\ x < NCells)
    /\ result' = <<heap[solution]>>
    /\ pc' = "brute_done"
    /\ UNCHANGED <<smarterVars, heap, solution, x, first_blank, call, calls,
                   input>>

BruteNext == BruteSetup \/ BruteFill \/ BruteRevert \/ BruteSkip \/ BruteReturn

SpecBrute == BruteInit /\ [][BruteNext]_vars

\* Either search, on the caller's grid.
SpecSolvers == (Init \/ BruteInit) /\ [][Next \/ BruteNext]_vars

-----------------------------------------------------------------------------
(* Direct calls of set_cell and direct clears of a cell, as create_grid    *)
(* and the tests make them, on a grid the caller holds.                    *)

\* The number of direct calls made on one grid.
MaxCalls == 2

\* The number of cells of CallCellList that direct calls address.
NCallCells == 4

\* r0c0; r0c4 in its row; r1c1 in its square; r4c0 in its column; r4c4.
CallCellList == <<0, 4, 10, 36, 40>>

\* The values passed: 1..9, and 0 and 10 on either side.
CallValues == 0 .. (MaxValue + 1)

\* SparseGrid with a second 3 in row 0 and in the top-left square.
ClashGrid == [SparseGrid EXCEPT ![0][0] = 3]

CellBoards == {create_grid, SparseGrid, ClassicGrid, ClashGrid}

CellInit ==
    /\ input \in CellBoards
    /\ heap = [o \in {"g"} |-> input]
    /\ solution = "g"
    /\ empty_indices = <<>>
    /\ N = 0
    /\ all_possibilities = <<>>
    /\ loop_possibilities = <<>>
    /\ ix = 0
    /\ x = 0
    /\ first_blank = 0
    /\ pc = "cell"
    /\ printed = ""
    /\ result = <<>>
    /\ call = NoCall
    /\ calls = 0
    /\ tried = <<>>

\* set_cell(i, j, grid, value) on the caller's grid.
SetCell(i, j, value) ==
    /\ pc = "cell"
    /\ calls < MaxCalls
    /\ LET r == set_cell(i, j, heap["g"], value)
       IN  /\ heap' = [heap EXCEPT !["g"] = r.grid]
           /\ call' = [op |-> "set_cell", i |-> i, j |-> j, value |-> value,
                       ret |-> r.ok]
    /\ calls' = calls + 1
    /\ UNCHANGED <<solverVars, pc, input>>

\* grid[i][j] = 0 on the caller's grid.
Clear(i, j) ==
    /\ pc = "cell"
    /\ calls < MaxCalls
    /\ heap' = [heap EXCEPT !["g"] = clear_cell(i, j, heap["g"])]
    /\ call' = [op |-> "clear", i |-> i, j |-> j, value |-> 0, ret |-> TRUE]
    /\ calls' = calls + 1
    /\ UNCHANGED <<solverVars, pc, input>>

CellNext ==
    \E n \in 1 .. NCallCells :
        LET i == CallCellList[n] \div Side
            j == CallCellList[n] % Side
        IN  \/ \E value \in CallValues : SetCell(i, j, value)
            \/ Clear(i, j)

SpecCell == CellInit /\ [][CellNext]_vars

\* The solver runs and the direct calls together.
SpecAll == (Init \/ CellInit) /\ [][Next \/ CellNext]_vars

-----------------------------------------------------------------------------
(* The Sudoku rules, stated over cells <<i, j>> and not through the        *)
(* helpers of the program.                                                 *)

Cells == Idx \X Idx

RowUnits == { {c \in Cells : c[1] = i} : i \in Idx }

ColUnits == { {c \in Cells : c[2] = j} : j \in Idx }

BlockUnits ==
    { {c \in Cells : c[1] \div Box = a /\ c[2] \div Box = b} :
          a \in 0 .. (Box - 1), b \in 0 .. (Box - 1) }

Units == RowUnits \cup ColUnits \cup BlockUnits

At(g, c) == g[c[1]][c[2]]

\* No unit holds the same nonzero value in two cells.
NoDup(g) ==
    \A u \in Units :
        Cardinality({ c \in u : At(g, c) # 0 })
            = Cardinality({ At(g, c) : c \in u } \ {0})

\* Every unit holds exactly the values 1..9.
Valid(g) == \A u \in Units : { At(g, c) : c \in u } = 1 .. MaxValue

\* value is in no cell that shares a unit with c (c itself left out).
Fits(g, c, value) ==
    \A d \in Cells :
        (d # c /\ (d[1] = c[1] \/ d[2] = c[2]
                   \/ (d[1] \div Box = c[1] \div Box /\ d[2] \div Box = c[2] \div Box)))
            => At(g, d) # value

Blank(g) == { n \in 0 .. (NCells - 1) : g[n \div Side][n % Side] = 0 }

Min(S) == CHOOSE m \in S : \A n \in S : m <= n

\* Some assignment of values 1..9 to the blank cells of g makes g Valid.
\* (Only values that fit can be part of such an assignment.)
RECURSIVE Completable(_)
Completable(g) ==
    IF Blank(g) = {}
    THEN Valid(g)
    ELSE LET n == Min(Blank(g))
             c == <<n \div Side, n % Side>>
         IN  \E value \in 1 .. MaxValue :
                 /\ Fits(g, c, value)
                 /\ Completable([g EXCEPT ![c[1]][c[2]] = value])

Done == pc = "done"

Success == Done /\ ix = N

Failure == Done /\ ix < 0

\* The working grid of the running solver.
Working == heap[solution]

-----------------------------------------------------------------------------
(* Claims about smarter_solve.                                             *)

\* C1 (as claimed): whenever the search ends in success (ix = N), every row,
\* every column and every square of the returned grid is a permutation of
\* 1..9, for every input grid with cells in 0..9.
C1_SoundnessAllInputs == Success => Valid(result[1])

\* Supporting C1: on inputs without a clash among the givens a success does
\* return a grid in which every unit is a permutation of 1..9.
SoundOnCleanInputs == (Success /\ NoDup(input)) => Valid(result[1])

\* C2 (as claimed): an input in which two given cells of one row, column or
\* square hold the same value ends in the no-solution outcome (ix < 0),
\* never in success.
C2_ClashingGivensFail == (Done /\ ~NoDup(input)) => (ix < 0 /\ printed = "No solution found!")

\* C3: for an input without a clash among its givens, the search ends in
\* success exactly when the blank cells have a consistent completion, and in
\* failure (ix = -1) exactly when they have none.
C3_Completeness ==
    (Done /\ NoDup(input)) =>
        /\ (ix = N) <=> Completable(input)
        /\ (ix = -1) <=> ~Completable(input)

\* C3 witness: a success on a clash-free input in which some blank cell ends
\* below a value that fitted when the cell was first reached with the final
\* values of the cells before it, so that value was accepted and later
\* undone by backtracking.
C3_Witness ==
    /\ Success
    /\ NoDup(input)
    /\ \E k \in 1 .. N :
          LET n == empty_indices[k]
              c == <<n \div Side, n % Side>>
              before == [i \in Idx |-> [j \in Idx |->
                            IF Side * i + j >= n /\ input[i][j] = 0
                            THEN 0 ELSE result[1][i][j]]]
          IN  \E value \in 1 .. MaxValue :
                  value > At(result[1], c) /\ Fits(before, c, value)

\* C4: in every state of the search, and in the returned grid, every cell
\* that is nonzero in the input holds its input value.
C4_Conservative ==
    /\ \A c \in Cells : At(input, c) # 0 => At(Working, c) = At(input, c)
    /\ Done => \A c \in Cells : At(input, c) # 0 => At(result[1], c) = At(input, c)

\* C4 witness: the search has written blank cells and has ended, on an input
\* that has given cells.
C4_Witness ==
    /\ Done
    /\ \E c \in Cells : At(input, c) # 0
    /\ \E c \in Cells : At(input, c) = 0 /\ At(result[1], c) # 0

\* C5: the caller's grid is, in every state, cell for cell what the caller
\* passed in.
C5_InputNotMutated == heap["g"] = input

\* C5 witness: the solver has written its working grid and has returned,
\* and the working grid is another object than the caller's.
C5_Witness == Done /\ solution # "g" /\ Working # input

\* C6: the search loop always exits, with ix = N or ix = -1.
C6_Termination == <>(Done /\ (ix = N \/ ix = -1))

\* C6 witness: a search on an input with clashing givens has accepted a
\* value for its first blank cell, has gone on to further cells, has been
\* exhausted and has exited with ix = -1.
C6_Witness ==
    /\ Failure
    /\ ix = -1
    /\ N >= 2
    /\ ~NoDup(input)
    /\ \E value \in 1 .. MaxValue :
           Fits(input, <<empty_indices[1] \div Side, empty_indices[1] % Side>>, value)

\* C7 (as claimed): on failure (ix < 0) the value returned is not a grid.
C7_FailureIsNotABoard == Failure => result[1] \notin Boards

-----------------------------------------------------------------------------
(* Claims about set_cell.                                                  *)

\* d is c or shares a row, a column or a square with c.
SharesUnit(c, d) ==
    \/ d[1] = c[1]
    \/ d[2] = c[2]
    \/ (d[1] \div Box = c[1] \div Box /\ d[2] \div Box = c[2] \div Box)

\* C8: set_cell returns True exactly when value is in 1..9 and no cell of
\* row i, of column j or of the square of (i, j), the cell (i, j) itself
\* included, holds value before the call.
C8_SetCellResult ==
    [][call'.op = "set_cell" =>
          (call'.ret <=>
              /\ call'.value \in 1 .. MaxValue
              /\ \A d \in Cells :
                     SharesUnit(<<call'.i, call'.j>>, d)
                         => At(heap["g"], d) # call'.value)]_vars

\* C8 witness: set_cell returned True on a cell that held another nonzero
\* value: an occupied cell alone is no reason to reject.
C8_Witness ==
    /\ calls = 1
    /\ call.op = "set_cell"
    /\ call.ret
    /\ At(input, <<call.i, call.j>>) # 0
    /\ At(input, <<call.i, call.j>>) # call.value

\* C9: a set_cell call that returns False leaves every cell as it was; one
\* that returns True changes cell (i, j) to value and no other cell.
C9_SetCellFrame ==
    [][call'.op = "set_cell" =>
          heap'["g"] = IF call'.ret
                       THEN [heap["g"] EXCEPT ![call'.i][call'.j] = call'.value]
                       ELSE heap["g"]]_vars

\* C9 witness: a value in 1..9 was rejected for a clash, after an accepted
\* call had written another cell.
C9_Witness ==
    /\ calls = 2
    /\ call.op = "set_cell"
    /\ ~call.ret
    /\ call.value \in 1 .. MaxValue
    /\ heap["g"] # input
    /\ At(heap["g"], <<call.i, call.j>>) = At(input, <<call.i, call.j>>)

\* C10: a grid without a duplicate in any row, column or square has none
\* after any sequence of set_cell calls and clears, and the working grid of
\* the solver has none in any state when the input has none.
C10_UniquenessPreserved == NoDup(input) => NoDup(Working)

\* C10 witness: on a grid without duplicates, an occupied cell was cleared
\* and then refilled by an accepted set_cell call.
C10_Witness ==
    /\ pc = "cell"
    /\ NoDup(input)
    /\ calls = 2
    /\ call.op = "set_cell"
    /\ call.ret
    /\ At(input, <<call.i, call.j>>) # 0
    /\ At(input, <<call.i, call.j>>) # call.value

-----------------------------------------------------------------------------
(* Claims about particular inputs of smarter_solve.                        *)

\* C11: on the grid whose cells are all 0, smarter_solve ends in success
\* with every cell assigned and every row, column and square of the
\* returned grid a permutation of 1..9.
C11_AllBlankSolved ==
    <>(input = create_grid =>
           /\ Success
           /\ N = NCells
           /\ printed = "Solution found!"
           /\ Valid(result[1]))

\* C11 witness: the search on the all-blank grid has returned.
C11_Witness == Done /\ input = create_grid /\ N = NCells /\ Blank(result[1]) = {}

\* C12: on an input without a blank cell, N = 0 and the one step the loop
\* state allows is the return: no cell is written or cleared, the outcome
\* is success, and the returned grid is the input, consistent or not.
C12_FullyGiven ==
    [][(pc = "loop" /\ Blank(input) = {}) =>
          /\ N = 0
          /\ ix = 0
          /\ pc' = "done"
          /\ heap' = heap
          /\ ix' = ix
          /\ printed' = "Solution found!"
          /\ result' = <<input>>]_vars

\* C12 witness: a grid without a blank cell and with two equal givens in a
\* unit has been returned as a success.
C12_Witness == Success /\ Blank(input) = {} /\ ~NoDup(input) /\ result = <<input>>

-----------------------------------------------------------------------------
(* get_square.                                                              *)

\* The grid whose cell (i, j) holds its own row-major index: get_square on
\* it returns the positions get_square reads.
IndexGrid == [i \in Idx |-> [j \in Idx |-> i * Side + j]]

\* The set of values in a sequence.
Range(seq) == {seq[k] : k \in DOMAIN seq}

\* C13: for every cell (i, j), get_square returns the nine values of rows
\* 3*(i div 3) .. +2 and columns 3*(j div 3) .. +2, row by row from the
\* top-left cell of the square; the result contains grid[i][j], is the same
\* for all cells of one square, and the nine squares partition the 81 cells.
C13_GetSquare ==
    LET grid == heap["g"]
        sq(i, j) == get_square(i, j, grid)
        pos(i, j) == Range(get_square(i, j, IndexGrid))
    IN  pc = "cell" =>
        /\ \A i, j \in Idx :
               LET r0 == 3 * (i \div 3)
                   c0 == 3 * (j \div 3)
               IN  /\ sq(i, j) =
                          << grid[r0][c0],     grid[r0][c0 + 1],     grid[r0][c0 + 2],
                             grid[r0 + 1][c0], grid[r0 + 1][c0 + 1], grid[r0 + 1][c0 + 2],
                             grid[r0 + 2][c0], grid[r0 + 2][c0 + 1], grid[r0 + 2][c0 + 2] >>
                   /\ \E k \in 1 .. 9 : sq(i, j)[k] = grid[i][j]
                   /\ i * Side + j \in pos(i, j)
                   /\ Cardinality(pos(i, j)) = 9
        /\ \A i, j \in Idx :
               \* the same result as for the top-left cell of the square
               LET r0 == 3 * (i \div 3)
                   c0 == 3 * (j \div 3)
               IN  sq(i, j) = sq(r0, c0) /\ pos(i, j) = pos(r0, c0)
        /\ \A a, b, c, d \in 0 .. 2 :
               (a # c \/ b # d) => pos(3 * a, 3 * b) \cap pos(3 * c, 3 * d) = {}
        /\ UNION {pos(3 * a, 3 * b) : a, b \in 0 .. 2} = 0 .. (NCells - 1)

\* C13 witness: set_cell has rejected a value that the square of (i, j)
\* holds and that neither row i nor column j holds, on a cell away from the
\* diagonal squares, where rows and columns are not interchangeable.
C13_Witness ==
    /\ pc = "cell"
    /\ calls = 1
    /\ call.op = "set_cell"
    /\ ~call.ret
    /\ call.i \div Box # call.j \div Box
    /\ In(call.value, get_square(call.i, call.j, input))
    /\ ~In(call.value, get_row(call.i, input))
    /\ ~In(call.value, get_col(call.j, input))

-----------------------------------------------------------------------------
(* The search loop of smarter_solve.                                       *)

\* C17: whenever smarter_solve exits with the cursor at -1, every cell that
\* was blank in the input is 0 again and the returned grid equals the input.
C17_FailureReturnsInput ==
    (Done /\ ix = -1) =>
        /\ \A n \in Blank(input) : result[1][n \div Side][n % Side] = 0
        /\ result[1] = input
        /\ Working = input

\* C17 witness: a search that assigned cells and then backtracked out of
\* the first blank cell has returned.
C17_Witness ==
    /\ Done
    /\ ix = -1
    /\ N >= 3
    /\ printed = "No solution found!"
    /\ \E value \in 1 .. MaxValue :
           Fits(input, <<empty_indices[1] \div Side, empty_indices[1] % Side>>, value)

\* The cell of the k-th blank position (k from 0, as ix counts).
CellOf(k) == <<empty_indices[k + 1] \div Side, empty_indices[k + 1] % Side>>

\* set_cell would accept value at cell c of grid g: value is held by no cell
\* of c's row, column or square.
Accepts(g, c, value) ==
    \A d \in Cells : SharesUnit(c, d) => At(g, d) # value

Prefix(g, k) ==
    [i \in Idx |-> [j \in Idx |->
        IF input[i][j] = 0 /\ \E m \in 1 .. k : empty_indices[m] = Side * i + j
        THEN g[i][j]
        ELSE input[i][j]]]

-----------------------------------------------------------------------------
(* Termination of brute_solve.                                              *)

\* brute_solve runs on its own: whenever an iteration or the return is
\* possible, it is taken.
FairSpecBrute == SpecBrute /\ WF_vars(BruteNext)

\* C18: for every input the loop `while first_blank <= x < 81` of
\* brute_solve eventually exits and brute_solve returns.
C18_BruteTerminates == <>(pc = "brute_done")

=============================================================================
